---- MODULE Spec2Model ----
(***************************************************************************)
(* A model of easyetl (src/easyetl/main.py): the Extract, Load and         *)
(* Transform facades over pandas, the filesystem and a relational          *)
(* database.  Every static method is one action; the library calls it      *)
(* delegates to (DataFrame.dropna, to_csv, read_csv, to_sql, ...) are      *)
(* operators computed the way pandas computes them on the values used.     *)
(***************************************************************************)
EXTENDS Integers, Sequences, FiniteSets, TLC

VARIABLES
    data,    \* the object the caller passes as `data` (mutated by inplace=True)
    fs,      \* the filesystem: path -> entry
    db,      \* the database: table name -> table
    conns,   \* database connections opened by read_db and not closed
    call,    \* the call in progress / last made: operation, arguments, the input as passed
    result   \* how that call ended: raise or return, message printed, value returned

vars == <<data, fs, db, conns, call, result>>

(***************************************************************************)
(* Bounds of the model.                                                    *)
(***************************************************************************)
MaxRows == 2      \* rows of the frames drawn as inputs
MaxOpen == 2      \* leaked connections counted before read_db is no longer called

(***************************************************************************)
(* Cells and tabular values.                                               *)
(***************************************************************************)
NaN == [t |-> "nan", v |-> 0]
IntCell(n) == [t |-> "int", v |-> n]
FloatCell(n) == [t |-> "float", v |-> n]         \* the float n.0
StrCell(s) == [t |-> "str", v |-> s]
ListCell(q) == [t |-> "list", v |-> q]
Timestamp(s) == [t |-> "datetime", v |-> s]
Text(s) == [t |-> "text", v |-> s]           \* one field of a delimited file

IsNA(c) == c.t = "nan"

\* A DataFrame: ordered column names, index labels, rows of cells.
DataFrame(cols, index, rows) ==
    [kind |-> "DataFrame", cols |-> cols, index |-> index, rows |-> rows]

\* A Series: one named column.
Series(name, index, rows) ==
    [kind |-> "Series", cols |-> <<name>>, index |-> index, rows |-> rows]

\* Any other Python object (an int, a dict, None).
Other(kind) == [kind |-> kind, cols |-> <<>>, index |-> <<>>, rows |-> <<>>]

NoValue == Other("NoneType")

\* A type check that lets every object through.
IsTabularMissingCheck(v) == TRUE

\* isinstance(data, (pd.DataFrame, pd.Series))
IsTabular(v) == v.kind \in {"DataFrame", "Series"}

RangeIndex(n) == [i \in 1..n |-> i - 1]

\* The column names of the frames drawn as inputs.
ColsAB == <<"a", "b">>

Range(s) == {s[i] : i \in 1..Len(s)}

\* Sequences over S of length 0..n.
SeqUpTo(S, n) == UNION {[1..k -> S] : k \in 0..n}

(***************************************************************************)
(* How a call ends.                                                        *)
(***************************************************************************)
\* The exception reaches the caller.
Raise(err) ==
    [outcome |-> "raise", err |-> err, printed |-> "none", ret |-> "none",
     value |-> NoValue]

\* The exception is not caught: the call ends with it.
NotCaught(err) ==
    [outcome |-> "raise", err |-> err, printed |-> "none", ret |-> "none",
     value |-> NoValue]

\* The exception was caught by `except Exception`, its message printed, and
\* the function fell off its end: the caller gets None.
Caught(err) ==
    [outcome |-> "return", err |-> err, printed |-> "error", ret |-> "None",
     value |-> NoValue]

\* A Loader finished: success message printed, None returned.
Loaded ==
    [outcome |-> "return", err |-> "none", printed |-> "success", ret |-> "None",
     value |-> NoValue]

\* A new object is returned.
ReturnNew(v) ==
    [outcome |-> "return", err |-> "none", printed |-> "none", ret |-> "new",
     value |-> v]

\* The reference passed in as `data` is returned.
ReturnInput ==
    [outcome |-> "return", err |-> "none", printed |-> "none", ret |-> "input",
     value |-> NoValue]

\* None is returned without anything printed.
ReturnNone ==
    [outcome |-> "return", err |-> "none", printed |-> "none", ret |-> "None",
     value |-> NoValue]

NoResult ==
    [outcome |-> "none", err |-> "none", printed |-> "none", ret |-> "none",
     value |-> NoValue]

\* A call record: the operation, the object passed as data (as it was when
\* passed) and the remaining arguments.
NoArgs ==
    [path |-> "", overwrite |-> FALSE, name |-> "", inplace |-> FALSE,
     how |-> "", axis |-> "", given |-> FALSE, columns |-> <<>>, column |-> "",
     item_a |-> <<>>, item_b |-> <<>>, a_list |-> FALSE, b_list |-> FALSE,
     dtype |-> "", errors |-> "",
     old_cols |-> <<>>, new_cols |-> <<>>, cols_given |-> FALSE,
     old_index |-> <<>>, new_index |-> <<>>, index_given |-> FALSE]

Call(op, args) == [op |-> op, input |-> data, args |-> args]

NoCall == [op |-> "none", input |-> NoValue, args |-> NoArgs]

(***************************************************************************)
(* The filesystem.                                                         *)
(***************************************************************************)
Paths == {"out.csv"}

Absent == [kind |-> "absent", fmt |-> "none", cols |-> <<>>, index |-> <<>>, rows |-> <<>>]
Dir == [kind |-> "dir", fmt |-> "none", cols |-> <<>>, index |-> <<>>, rows |-> <<>>]
\* A symbolic link whose target does not exist.
Dangling == [kind |-> "dangling", fmt |-> "none", cols |-> <<>>, index |-> <<>>, rows |-> <<>>]
File(fmt, cols, index, rows) ==
    [kind |-> "file", fmt |-> fmt, cols |-> cols, index |-> index, rows |-> rows]

\* A file written before the program ran.
OldFile == File("csv", <<"old">>, <<>>, << <<Text("7")>> >>)

\* A file opened for writing (truncated) whose write then failed.
Truncated(fmt) == File(fmt, <<>>, <<>>, <<>>)

\* os.path.exists: true for a file or directory, false when nothing is there
\* and false for a broken symbolic link.
PathExists(p) == fs[p].kind \in {"file", "dir"}

\* What the environment does to a write: it completes, it is refused before
\* the file is opened (missing directory, permission denied), or it fails
\* after the file was opened for writing.
IOOutcomes == {"ok", "denied", "partial"}

(***************************************************************************)
(* Serialisation: DataFrame.to_csv(index=False), to_json, to_excel.        *)
(***************************************************************************)
\* The text pandas writes for one cell: nothing for a missing value, the
\* digits of an integer, digits and ".0" for an integral float, a string as
\* it is (the csv layer quotes and unquotes it), repr() of a list.
FormatCell(c) ==
    CASE c.t = "nan" -> ""
      [] c.t = "int" -> ToString(c.v)
      [] c.t = "float" -> ToString(c.v) \o ".0"
      [] c.t = "list" -> "[...]"
      [] OTHER -> c.v

\* to_csv with the index written as a first, unnamed column (index=True).
to_csv_with_index(v) ==
    File("csv", <<"">> \o v.cols, <<>>,
         [i \in 1..Len(v.rows) |->
            <<Text(ToString(v.index[i]))>> \o
            [j \in 1..Len(v.rows[i]) |-> Text(FormatCell(v.rows[i][j]))]])

\* to_csv(path, index=False): the header line holds the column names, each
\* further line one row; the index is not written.
to_csv(v) ==
    File("csv", v.cols, <<>>,
         [i \in 1..Len(v.rows) |->
            [j \in 1..Len(v.rows[i]) |-> Text(FormatCell(v.rows[i][j]))]])

\* to_json(path): orient 'columns', {column: {index label: cell}}.
to_json(v) == File("json", v.cols, v.index, v.rows)

\* to_excel(path): one sheet; the index is written as its first column.
to_excel(v) == File("xlsx", <<"">> \o v.cols, v.index, v.rows)

(***************************************************************************)
(* Load.                                                                   *)
(***************************************************************************)
\* A guard that never raises.
check_file_ignores_flag(filepath, overwrite) == "none"

\* Load._check_file: the error it raises, or "none".
check_file(filepath, overwrite) ==
    IF PathExists(filepath) /\ ~overwrite THEN "FileExistsError" ELSE "none"

\* The write of `content` to filepath under the environment's outcome io:
\* the error raised ("none" when the write completed) and the entry left.
WriteFile(filepath, content, io) ==
    CASE fs[filepath].kind = "dir" ->
           [err |-> "IsADirectoryError", entry |-> fs[filepath]]
      [] fs[filepath].kind # "dir" /\ io = "denied" ->
           [err |-> "OSError", entry |-> fs[filepath]]
      [] fs[filepath].kind # "dir" /\ io = "partial" ->
           [err |-> "OSError", entry |-> Truncated(content.fmt)]
      [] OTHER ->
           [err |-> "none", entry |-> content]

\* The sink body with the success message printed whether or not the write
\* completed.
SinkBodySuccessAnyway(filepath, overwrite, content, io) ==
    LET guard == check_file(filepath, overwrite)
        w == WriteFile(filepath, content, io)
    IN  IF guard # "none"
        THEN /\ result' = Caught(guard)
             /\ fs' = fs
        ELSE /\ fs' = [fs EXCEPT ![filepath] = w.entry]
             /\ result' = Loaded

\* The body shared by the three file sinks, after the type check: guard,
\* write, success message, all inside try/except Exception.
SinkBody(filepath, overwrite, content, io) ==
    LET guard == check_file(filepath, overwrite)
        w == WriteFile(filepath, content, io)
    IN  IF guard # "none"
        THEN /\ result' = Caught(guard)
             /\ fs' = fs
        ELSE /\ fs' = [fs EXCEPT ![filepath] = w.entry]
             /\ result' = IF w.err = "none" THEN Loaded ELSE Caught(w.err)

FileArgs(filepath, overwrite) ==
    [NoArgs EXCEPT !.path = filepath, !.overwrite = overwrite]

load_csv(filepath, overwrite, io) ==
    /\ call' = Call("load_csv", FileArgs(filepath, overwrite))
    /\ IF ~IsTabular(data)
       THEN result' = Raise("TypeError") /\ fs' = fs
       ELSE SinkBody(filepath, overwrite, to_csv(data), io)
    /\ UNCHANGED <<data, db, conns>>

load_json(filepath, overwrite, io) ==
    /\ call' = Call("load_json", FileArgs(filepath, overwrite))
    /\ IF ~IsTabular(data)
       THEN result' = Raise("TypeError") /\ fs' = fs
       ELSE SinkBody(filepath, overwrite, to_json(data), io)
    /\ UNCHANGED <<data, db, conns>>

load_to_excel(filepath, overwrite, io) ==
    /\ call' = Call("load_to_excel", FileArgs(filepath, overwrite))
    /\ IF ~IsTabular(data)
       THEN result' = Raise("TypeError") /\ fs' = fs
       ELSE SinkBody(filepath, overwrite, to_excel(data), io)
    /\ UNCHANGED <<data, db, conns>>

(***************************************************************************)
(* The database.                                                           *)
(***************************************************************************)
Tables == {"t", "u"}

NoTable == [exists |-> FALSE, cols |-> <<>>, rows |-> <<>>]
Table(cols, rows) == [exists |-> TRUE, cols |-> cols, rows |-> rows]
OldTable == Table(<<"old">>, << <<IntCell(7)>> >>)

\* The name to_sql gives the index column (index=True is the default).
IndexLabel(v) == IF "index" \in Range(v.cols) THEN "level_0" ELSE "index"

\* The rows to_sql inserts: the index label, then the row's cells.
SqlRows(v) == [i \in 1..Len(v.rows) |-> <<IntCell(v.index[i])>> \o v.rows[i]]

\* to_sql with if_exists='append': the rows are added to an existing table.
to_sql_append(v, old) ==
    IF old.exists
    THEN Table(old.cols, old.rows \o SqlRows(v))
    ELSE Table(<<IndexLabel(v)>> \o v.cols, SqlRows(v))

\* to_sql(name, con, if_exists='replace'): the table is dropped if it exists,
\* created from the value's columns, and the rows inserted.
to_sql(v, old) == Table(<<IndexLabel(v)>> \o v.cols, SqlRows(v))

\* What the database does to a request: it is served, the connection is
\* refused, or the statement fails (after the old table was dropped, when the
\* backend does not roll the drop back).
DBOutcomes == {"ok", "refused", "failed", "failed_dropped"}

load_to_db(name, dbo) ==
    /\ call' = Call("load_to_db", [NoArgs EXCEPT !.name = name])
    /\ IF ~IsTabular(data)
       THEN result' = Raise("TypeError") /\ db' = db
       ELSE CASE dbo = "ok" ->
                   /\ db' = [db EXCEPT ![name] = to_sql(data, db[name])]
                   /\ result' = Loaded
              [] dbo = "refused" ->
                   /\ db' = db
                   /\ result' = Caught("OperationalError")
              [] dbo = "failed" ->
                   /\ db' = db
                   /\ result' = Caught("DatabaseError")
              [] OTHER ->
                   /\ db' = [db EXCEPT ![name] = NoTable]
                   /\ result' = Caught("DatabaseError")
    /\ UNCHANGED <<data, fs, conns>>

(***************************************************************************)
(* Extract.read_db.                                                        *)
(***************************************************************************)
\* pd.read_sql_query(query, connection) for the query SELECT * FROM name:
\* the rows of the table under a fresh RangeIndex.
read_sql_query(name) ==
    DataFrame(db[name].cols, RangeIndex(Len(db[name].rows)), db[name].rows)

\* connect, read_sql_query, close, return: the statements run in sequence
\* with no try/finally, so an exception raised by read_sql_query leaves the
\* function before connection.close().
read_db(name, connected, queryok) ==
    /\ conns < MaxOpen
    /\ call' = Call("read_db", [NoArgs EXCEPT !.name = name])
    /\ IF ~connected
       THEN /\ result' = Raise("OperationalError")
            /\ conns' = conns
       ELSE IF ~queryok \/ ~db[name].exists
            THEN /\ result' = Raise("DatabaseError")
                 /\ conns' = conns + 1
            ELSE /\ result' = ReturnNew(read_sql_query(name))
                 /\ conns' = conns
    /\ UNCHANGED <<data, fs, db>>

(***************************************************************************)
(* Transform: the pandas methods it delegates to.  Each returns a record   *)
(* [err, value]: the exception raised ("none" when there is none) and the  *)
(* new object.                                                             *)
(***************************************************************************)
Ok(v) == [err |-> "none", value |-> v]
Err(e) == [err |-> e, value |-> NoValue]

\* The positions of 1..n that are in keep, in order.
Positions(n, keep) == SelectSeq([i \in 1..n |-> i], LAMBDA i : i \in keep)

\* The value restricted to the rows at positions ps (labels kept).
TakeRows(v, ps) ==
    [v EXCEPT !.index = [k \in 1..Len(ps) |-> v.index[ps[k]]],
              !.rows = [k \in 1..Len(ps) |-> v.rows[ps[k]]]]

\* The value restricted to the columns at positions ps.
TakeCols(v, ps) ==
    [v EXCEPT !.cols = [k \in 1..Len(ps) |-> v.cols[ps[k]]],
              !.rows = [i \in 1..Len(v.rows) |->
                          [k \in 1..Len(ps) |-> v.rows[i][ps[k]]]]]

\* dropna on rows with the meanings of how='any' and how='all' exchanged.
dropna_swapped(v, axis, how, given, subset) ==
    LET n == Len(v.rows)
        m == Len(v.cols)
        checked == IF given THEN {j \in 1..m : v.cols[j] \in Range(subset)} ELSE 1..m
        KeepRow(i) == IF how = "all"
                      THEN \A j \in checked : ~IsNA(v.rows[i][j])
                      ELSE \E j \in checked : ~IsNA(v.rows[i][j])
    IN  Ok(TakeRows(v, Positions(n, {i \in 1..n : KeepRow(i)})))

\* DataFrame.dropna(axis, how, subset) and Series.dropna(axis, how[, subset]).
\* `given` tells whether subset was passed.  Column names are text and index
\* labels integers, so a non-empty subset of names is never found among the
\* index labels (axis='columns').  Series.dropna has no subset parameter and
\* does not use how.
dropna(v, axis, how, given, subset) ==
    LET n == Len(v.rows)
        m == Len(v.cols)
        checked == IF given THEN {j \in 1..m : v.cols[j] \in Range(subset)} ELSE 1..m
        KeepRow(i) == IF how = "any"
                      THEN \A j \in checked : ~IsNA(v.rows[i][j])
                      ELSE \E j \in checked : ~IsNA(v.rows[i][j])
        checkedRows == IF given THEN {} ELSE 1..n
        KeepCol(j) == IF how = "any"
                      THEN \A i \in checkedRows : ~IsNA(v.rows[i][j])
                      ELSE \E i \in checkedRows : ~IsNA(v.rows[i][j])
        NotNA(i) == ~IsNA(v.rows[i][1])
    IN  IF v.kind = "Series"
        THEN IF given THEN Err("TypeError")
             ELSE IF axis # "index" THEN Err("ValueError")
             ELSE Ok(TakeRows(v, Positions(n, {i \in 1..n : NotNA(i)})))
        ELSE IF axis \notin {"index", "columns"} THEN Err("ValueError")
             ELSE IF given /\ axis = "index" /\ ~(Range(subset) \subseteq Range(v.cols))
                  THEN Err("KeyError")
             ELSE IF given /\ axis = "columns" /\ subset # <<>> THEN Err("KeyError")
             ELSE IF how \notin {"any", "all"} THEN Err("ValueError")
             ELSE IF axis = "index" THEN Ok(TakeRows(v, Positions(n, {i \in 1..n : KeepRow(i)})))
             ELSE Ok(TakeCols(v, Positions(m, {j \in 1..m : KeepCol(j)})))

\* to_replace / value arguments: a scalar ([list |-> FALSE], one item) or a
\* list of scalars.
Scalar(c) == [list |-> FALSE, items |-> <<c>>]
Listed(q) == [list |-> TRUE, items |-> q]

\* DataFrame.replace(to_replace, value): a cell equal to an item of
\* to_replace becomes value (scalar) or the item of value at the same
\* position (list; the lists must be as long as each other).  The matches
\* are found on the original cells, so the substitutions are simultaneous.
pd_replace(v, a, b) ==
    LET Hit(c) == {k \in 1..Len(a.items) : a.items[k] = c}
        First(c) == CHOOSE k \in Hit(c) : \A l \in Hit(c) : k <= l
        Sub(c) == IF Hit(c) = {} THEN c
                  ELSE IF b.list THEN b.items[First(c)] ELSE b.items[1]
    IN  IF a.list /\ b.list /\ Len(a.items) # Len(b.items) THEN Err("ValueError")
        ELSE Ok([v EXCEPT !.rows = [i \in 1..Len(v.rows) |->
                                      [j \in 1..Len(v.rows[i]) |-> Sub(v.rows[i][j])]]])

\* len(x) if x is a non-empty list, else 1.
mylen(c) == IF c.t = "list" /\ Len(c.v) > 0 THEN Len(c.v) ELSE 1

\* The k-th piece of an exploded cell: the k-th element of a list, a missing
\* value for an empty list, the cell itself otherwise.
Piece(c, k) ==
    IF c.t = "list" THEN (IF Len(c.v) = 0 THEN NaN ELSE c.v[k]) ELSE c

RECURSIVE Flatten(_)
Flatten(ss) == IF ss = <<>> THEN <<>> ELSE Head(ss) \o Flatten(Tail(ss))

\* DataFrame.explode(column) for a list of column names, and
\* Series.explode(ignore_index), which takes the argument as its flag.
pd_explode(v, columns) ==
    LET n == Len(v.rows)
        m == Len(v.cols)
        target == {j \in 1..m : v.cols[j] \in Range(columns)}
        first == CHOOSE j \in 1..m : v.cols[j] = columns[1]
        Count(i) == mylen(v.rows[i][first])
        Matching == \A i \in 1..n : \A j \in target : mylen(v.rows[i][j]) = Count(i)
        Exploded(i) == [k \in 1..Count(i) |->
                          [j \in 1..m |-> IF j \in target THEN Piece(v.rows[i][j], k)
                                          ELSE v.rows[i][j]]]
        Labels(i) == [k \in 1..Count(i) |-> v.index[i]]
        SCount(i) == mylen(v.rows[i][1])
        SExploded(i) == [k \in 1..SCount(i) |-> <<Piece(v.rows[i][1], k)>>]
        SLabels(i) == [k \in 1..SCount(i) |-> v.index[i]]
        srows == Flatten([i \in 1..n |-> SExploded(i)])
    IN  IF v.kind = "Series"
        THEN Ok([v EXCEPT !.rows = srows,
                          !.index = IF columns # <<>> THEN RangeIndex(Len(srows))
                                    ELSE Flatten([i \in 1..n |-> SLabels(i)])])
        ELSE IF Cardinality(Range(v.cols)) # m THEN Err("ValueError")
             ELSE IF columns = <<>> THEN Err("ValueError")
             ELSE IF Cardinality(Range(columns)) # Len(columns) THEN Err("ValueError")
             ELSE IF ~(Range(columns) \subseteq Range(v.cols)) THEN Err("KeyError")
             ELSE IF ~Matching THEN Err("ValueError")
             ELSE Ok([v EXCEPT !.rows = Flatten([i \in 1..n |-> Exploded(i)]),
                               !.index = Flatten([i \in 1..n |-> Labels(i)])])

\* The integers whose decimal text the model reads back.
Digits == 0..9

IsIntText(s) == \E n \in Digits : ToString(n) = s
IsFloatText(s) == \E n \in Digits : ToString(n) \o ".0" = s
IntOfText(s) == CHOOSE n \in Digits : ToString(n) = s \/ ToString(n) \o ".0" = s

\* astype on one cell: the cell of the target type, or an error.
Coerce(c, dtype) ==
    CASE dtype = "int" ->
           CASE c.t \in {"int", "float"} -> Ok(IntCell(c.v))
             [] c.t = "str" /\ IsIntText(c.v) -> Ok(IntCell(IntOfText(c.v)))
             [] OTHER -> Err("ValueError")
      [] dtype = "float" ->
           CASE c.t \in {"int", "float"} -> Ok(FloatCell(c.v))
             [] c.t = "nan" -> Ok(NaN)
             [] c.t = "str" /\ (IsIntText(c.v) \/ IsFloatText(c.v)) ->
                  Ok(FloatCell(IntOfText(c.v)))
             [] OTHER -> Err("ValueError")
      [] dtype = "str" ->
           CASE c.t = "nan" -> Ok(StrCell("nan"))
             [] c.t = "str" -> Ok(c)
             [] OTHER -> Ok(StrCell(FormatCell(c)))
      [] OTHER -> Err("TypeError")

\* DataFrame.astype(dtype) / Series.astype(dtype): every cell coerced, an
\* error if any cell cannot be.
astype(v, dtype) ==
    LET Bad == \E i \in 1..Len(v.rows) : \E j \in 1..Len(v.rows[i]) :
                  Coerce(v.rows[i][j], dtype).err # "none"
    IN  IF dtype \notin {"int", "float", "str"} THEN Err("TypeError")
        ELSE IF Bad THEN Err("ValueError")
        ELSE Ok([v EXCEPT !.rows = [i \in 1..Len(v.rows) |->
                   [j \in 1..Len(v.rows[i]) |-> Coerce(v.rows[i][j], dtype).value]]])

\* The date texts pd.to_datetime parses.
DateTexts == {"2020-01-01", "2021-12-31"}

\* pd.to_datetime on one cell: a timestamp for a date text or a timestamp,
\* missing stays missing, an integer counts from the epoch, anything else
\* does not parse.
ParseDate(c) ==
    CASE c.t = "nan" -> Ok(NaN)
      [] c.t = "datetime" -> Ok(c)
      [] c.t = "str" /\ c.v \in DateTexts -> Ok(Timestamp(c.v))
      [] c.t \in {"int", "float"} -> Ok(Timestamp("1970-01-01"))
      [] OTHER -> Err("ParserError")

\* df = data.copy(); df[column] = pd.to_datetime(df[column])
copy_to_datetime(v, column) ==
    LET j == CHOOSE k \in 1..Len(v.cols) : v.cols[k] = column
        Bad == \E i \in 1..Len(v.rows) : ParseDate(v.rows[i][j]).err # "none"
    IN  IF Bad THEN Err("ParserError")
        ELSE Ok([v EXCEPT !.rows = [i \in 1..Len(v.rows) |->
                   [v.rows[i] EXCEPT ![j] = ParseDate(v.rows[i][j]).value]]])

\* A dict argument or None: [given, old, new], the keys and their values in
\* order.
NoDict == [given |-> FALSE, old |-> <<>>, new |-> <<>>]
Dict(old, new) == [given |-> TRUE, old |-> old, new |-> new]

\* The labels renamed by a dict; a label that is no key stays.
Relabel(labels, d) ==
    [i \in 1..Len(labels) |->
        IF \E k \in 1..Len(d.old) : d.old[k] = labels[i]
        THEN d.new[CHOOSE k \in 1..Len(d.old) : d.old[k] = labels[i]]
        ELSE labels[i]]

UnknownKey(labels, d) == \E k \in 1..Len(d.old) : d.old[k] \notin Range(labels)

\* DataFrame.rename(axis, columns, index, errors): [err, value, partial].
\* axis together with columns or index is refused, and so is a call that
\* names no mapping at all.  The index is relabelled before the columns;
\* `partial` is the object as it stands when the error is raised, which is
\* what an in-place call leaves behind.
pd_rename(v, axis, columns, index, errors) ==
    LET afterIndex == IF index.given
                      THEN [v EXCEPT !.index = Relabel(v.index, index)] ELSE v
        afterCols == IF columns.given
                     THEN [afterIndex EXCEPT !.cols = Relabel(v.cols, columns)]
                     ELSE afterIndex
    IN  IF ~columns.given /\ ~index.given
        THEN [err |-> "TypeError", value |-> NoValue, partial |-> v]
        ELSE IF axis # "None"
        THEN [err |-> "TypeError", value |-> NoValue, partial |-> v]
        ELSE IF index.given /\ errors = "raise" /\ UnknownKey(v.index, index)
        THEN [err |-> "KeyError", value |-> NoValue, partial |-> v]
        ELSE IF columns.given /\ errors = "raise" /\ UnknownKey(v.cols, columns)
        THEN [err |-> "KeyError", value |-> NoValue, partial |-> afterIndex]
        ELSE [err |-> "none", value |-> afterCols, partial |-> afterCols]

(***************************************************************************)
(* Transform.                                                              *)
(***************************************************************************)
drop_na(given, columns, drop, inplace, how) ==
    /\ call' = Call("drop_na", [NoArgs EXCEPT !.given = given, !.columns = columns,
                                              !.axis = drop, !.inplace = inplace,
                                              !.how = how])
    /\ IF ~IsTabular(data)
       THEN result' = Raise("TypeError") /\ data' = data
       ELSE LET r == dropna(data, drop, how, given, columns)
            IN  IF r.err # "none"
                THEN result' = Caught(r.err) /\ data' = data
                ELSE IF inplace
                     THEN result' = ReturnNone /\ data' = r.value
                     ELSE result' = ReturnNew(r.value) /\ data' = data
    /\ UNCHANGED <<fs, db, conns>>

replace(item_a, item_b, inplace) ==
    /\ call' = Call("replace", [NoArgs EXCEPT !.item_a = item_a.items,
                                              !.a_list = item_a.list,
                                              !.item_b = item_b.items,
                                              !.b_list = item_b.list,
                                              !.inplace = inplace])
    /\ IF ~IsTabular(data)
       THEN result' = Raise("TypeError") /\ data' = data
       ELSE LET r == pd_replace(data, item_a, item_b)
            IN  IF r.err # "none"
                THEN result' = Caught(r.err) /\ data' = data
                ELSE IF inplace
                     THEN result' = ReturnInput /\ data' = r.value
                     ELSE result' = ReturnNew(r.value) /\ data' = data
    /\ UNCHANGED <<fs, db, conns>>

explode(columns) ==
    /\ call' = Call("explode", [NoArgs EXCEPT !.columns = columns])
    /\ IF ~IsTabular(data)
       THEN result' = Raise("TypeError")
       ELSE LET r == pd_explode(data, columns)
            IN  result' = IF r.err # "none" THEN Caught(r.err) ELSE ReturnNew(r.value)
    /\ UNCHANGED <<data, fs, db, conns>>

changetype(dtype) ==
    /\ call' = Call("changetype", [NoArgs EXCEPT !.dtype = dtype])
    /\ IF ~IsTabular(data)
       THEN result' = Raise("TypeError")
       ELSE LET r == astype(data, dtype)
            IN  result' = IF r.err # "none" THEN Caught(r.err) ELSE ReturnNew(r.value)
    /\ UNCHANGED <<data, fs, db, conns>>

\* to_datetime with the conversion done on `data` itself instead of a copy.
to_datetime_no_copy(column) ==
    /\ call' = Call("to_datetime", [NoArgs EXCEPT !.column = column])
    /\ IF ~IsTabular(data)
       THEN result' = Raise("TypeError") /\ data' = data
       ELSE IF data.kind = "Series"
       THEN result' = Raise("AttributeError") /\ data' = data
       ELSE IF column = "" \/ column \notin Range(data.cols)
       THEN result' = Raise("ValueError") /\ data' = data
       ELSE LET r == copy_to_datetime(data, column)
            IN  IF r.err # "none"
                THEN result' = Caught(r.err) /\ data' = data
                ELSE result' = ReturnNew(r.value) /\ data' = r.value
    /\ UNCHANGED <<fs, db, conns>>

\* The second check reads data.columns, which a Series does not have: the
\* AttributeError is raised outside the try block.  `not column` holds for
\* the empty name.
to_datetime(column) ==
    /\ call' = Call("to_datetime", [NoArgs EXCEPT !.column = column])
    /\ IF ~IsTabular(data)
       THEN result' = Raise("TypeError")
       ELSE IF data.kind = "Series"
       THEN result' = Raise("AttributeError")
       ELSE IF column = "" \/ column \notin Range(data.cols)
       THEN result' = Raise("ValueError")
       ELSE LET r == copy_to_datetime(data, column)
            IN  result' = IF r.err # "none" THEN Caught(r.err) ELSE ReturnNew(r.value)
    /\ UNCHANGED <<data, fs, db, conns>>

\* rename accepts a DataFrame only.
rename(to_rename, columns, index, inplace, errors) ==
    /\ call' = Call("rename", [NoArgs EXCEPT !.axis = to_rename,
                                             !.old_cols = columns.old,
                                             !.new_cols = columns.new,
                                             !.cols_given = columns.given,
                                             !.old_index = index.old,
                                             !.new_index = index.new,
                                             !.index_given = index.given,
                                             !.inplace = inplace,
                                             !.errors = errors])
    /\ IF data.kind # "DataFrame"
       THEN result' = Raise("TypeError") /\ data' = data
       ELSE LET r == pd_rename(data, to_rename, columns, index, errors)
            IN  IF r.err # "none"
                THEN /\ result' = Caught(r.err)
                     /\ data' = IF inplace THEN r.partial ELSE data
                ELSE IF inplace
                     THEN result' = ReturnInput /\ data' = r.value
                     ELSE result' = ReturnNew(r.value) /\ data' = data
    /\ UNCHANGED <<fs, db, conns>>

(***************************************************************************)
(* The Transformer: the calls a caller can make, in any order, on one      *)
(* object.                                                                 *)
(***************************************************************************)
ListOneTwo == ListCell(<<IntCell(1), IntCell(2)>>)

TransRows ==
    {<<NaN, StrCell("2020-01-01")>>, <<ListOneTwo, StrCell("soon")>>,
     <<IntCell(1), NaN>>}

TransValues ==
    {DataFrame(ColsAB, RangeIndex(Len(r)), r) : r \in SeqUpTo(TransRows, MaxRows)}
    \cup {Series("a", RangeIndex(Len(r)), r) :
            r \in SeqUpTo({<<NaN>>, <<StrCell("2020-01-01")>>}, MaxRows)}
    \cup {Other("int")}

\* The `columns` argument of drop_na: None, or a list of names.
NoColumns == [given |-> FALSE, names |-> <<>>]
Columns(names) == [given |-> TRUE, names |-> names]

ReplaceArgs ==
    {<<Scalar(NaN), Scalar(IntCell(1))>>,
     <<Scalar(IntCell(1)), Scalar(NaN)>>,
     <<Listed(<<NaN, IntCell(1)>>), Listed(<<IntCell(1), NaN>>)>>,
     <<Listed(<<NaN, IntCell(1)>>), Listed(<<IntCell(1)>>)>>}

\* to_rename, columns, index, errors
RenameArgs ==
    {<<"None", Dict(<<"a">>, <<"c">>), NoDict, "ignore">>,
     <<"None", Dict(<<"a">>, <<"c">>), Dict(<<0>>, <<5>>), "raise">>,
     <<"None", Dict(<<"zz">>, <<"c">>), Dict(<<0>>, <<5>>), "raise">>,
     <<"None", Dict(<<"zz">>, <<"c">>), NoDict, "ignore">>,
     <<"columns", Dict(<<"a">>, <<"c">>), NoDict, "ignore">>,
     <<"None", NoDict, NoDict, "ignore">>}

InitTransform ==
    /\ data \in TransValues
    /\ fs = [p \in Paths |-> Absent]
    /\ db = [n \in Tables |-> NoTable]
    /\ conns = 0
    /\ call = NoCall
    /\ result = NoResult

NextTransform ==
    \/ \E c \in {NoColumns, Columns(<<"a">>), Columns(<<"zz">>)},
          d \in {"index", "columns"}, ip \in BOOLEAN, h \in {"any", "some"} :
          drop_na(c.given, c.names, d, ip, h)
    \/ \E ab \in ReplaceArgs, ip \in BOOLEAN : replace(ab[1], ab[2], ip)
    \/ \E c \in {<<"a">>, <<"a", "b">>, <<"zz">>} : explode(c)
    \/ \E t \in {"float", "str", "date"} : changetype(t)
    \/ \E c \in {"", "a", "b", "zz"} : to_datetime(c)
    \/ \E r \in RenameArgs, ip \in BOOLEAN : rename(r[1], r[2], r[3], ip, r[4])

SpecTransform == InitTransform /\ [][NextTransform]_vars

(***************************************************************************)
(* drop_na alone, on frames with every pattern of missing cells.           *)
(***************************************************************************)
DropRows ==
    {<<IntCell(1), StrCell("x")>>, <<NaN, StrCell("y")>>, <<IntCell(2), NaN>>,
     <<NaN, NaN>>}

DropValues ==
    {DataFrame(ColsAB, RangeIndex(Len(r)), r) : r \in SeqUpTo(DropRows, MaxRows)}

ColumnArgs ==
    {NoColumns, Columns(<<>>), Columns(<<"a">>), Columns(<<"b">>),
     Columns(<<"a", "b">>), Columns(<<"zz">>)}

InitDropNa ==
    /\ data \in DropValues
    /\ fs = [p \in Paths |-> Absent]
    /\ db = [n \in Tables |-> NoTable]
    /\ conns = 0
    /\ call = NoCall
    /\ result = NoResult

NextDropNa ==
    \E c \in ColumnArgs, d \in {"index", "columns", "rows"}, ip \in BOOLEAN,
       h \in {"any", "all", "some"} : drop_na(c.given, c.names, d, ip, h)

SpecDropNa == InitDropNa /\ [][NextDropNa]_vars

(***************************************************************************)
(* The Loader and the database Extractor: the calls a caller can make, in  *)
(* any order, on one value and one filesystem and database.                *)
(***************************************************************************)
LoadRows == {<<IntCell(1), StrCell("x")>>, <<NaN, IntCell(2)>>}

LoadValues ==
    {DataFrame(ColsAB, RangeIndex(Len(r)), r) : r \in SeqUpTo(LoadRows, MaxRows)}
    \cup {Series("a", RangeIndex(Len(r)), r) :
            r \in SeqUpTo({<<IntCell(1)>>, <<NaN>>}, MaxRows)}

Init ==
    /\ data \in LoadValues
    /\ fs \in [Paths -> {Absent, OldFile, Dir, Dangling}]
    /\ db \in [Tables -> {NoTable, OldTable}]
    /\ conns = 0
    /\ call = NoCall
    /\ result = NoResult

Next ==
    \/ \E p \in Paths, ow \in BOOLEAN, io \in IOOutcomes : load_csv(p, ow, io)
    \/ \E p \in Paths, ow \in BOOLEAN, io \in IOOutcomes : load_json(p, ow, io)
    \/ \E p \in Paths, ow \in BOOLEAN, io \in IOOutcomes : load_to_excel(p, ow, io)
    \/ \E n \in Tables, dbo \in DBOutcomes : load_to_db(n, dbo)
    \/ \E n \in Tables, c \in BOOLEAN, q \in BOOLEAN : read_db(n, c, q)

Spec == Init /\ [][Next]_vars

(***************************************************************************)
(* Extract.read_csv.                                                       *)
(***************************************************************************)
\* The field texts pd.read_csv takes for a missing value (its default
\* na_values, keep_default_na=True).
NAValues ==
    {"", "#N/A", "#N/A N/A", "#NA", "-1.#IND", "-1.#QNAN", "-NaN", "-nan",
     "1.#IND", "1.#QNAN", "<NA>", "N/A", "NA", "NULL", "NaN", "None", "n/a",
     "nan", "null"}

\* One column of fields read with type inference: the missing-value markers
\* become missing; if every other field spells an integer the column is
\* integer (floating-point when a value is missing), if every other field
\* spells a number it is floating-point, otherwise the fields stay text.
InferColumn(fields) ==
    LET n == Len(fields)
        present == {i \in 1..n : fields[i] \notin NAValues}
        allInt == \A i \in present : IsIntText(fields[i])
        allNum == \A i \in present : IsIntText(fields[i]) \/ IsFloatText(fields[i])
    IN  [i \in 1..n |->
           IF i \notin present THEN NaN
           ELSE IF allInt /\ present = 1..n THEN IntCell(IntOfText(fields[i]))
           ELSE IF allNum THEN FloatCell(IntOfText(fields[i]))
           ELSE StrCell(fields[i])]

\* pd.read_csv on the text of a delimited file: the first line names the
\* columns, every column is inferred on its own, the rows get a RangeIndex.
ParseCsv(file) ==
    LET n == Len(file.rows)
        m == Len(file.cols)
        Column(j) == InferColumn([i \in 1..n |-> file.rows[i][j].v])
    IN  DataFrame(file.cols, RangeIndex(n),
                  [i \in 1..n |-> [j \in 1..m |-> Column(j)[i]]])

\* No try/except: every failure reaches the caller.
read_csv(filepath) ==
    /\ call' = Call("read_csv", [NoArgs EXCEPT !.path = filepath])
    /\ result' =
         CASE fs[filepath].kind \in {"absent", "dangling"} -> Raise("FileNotFoundError")
           [] fs[filepath].kind = "dir" -> Raise("IsADirectoryError")
           [] fs[filepath].kind = "file" /\ fs[filepath].fmt # "csv" -> Raise("ParserError")
           [] fs[filepath].kind = "file" /\ fs[filepath].fmt = "csv"
              /\ fs[filepath].cols = <<>> -> Raise("EmptyDataError")
           [] OTHER -> ReturnNew(ParseCsv(fs[filepath]))
    /\ UNCHANGED <<data, fs, db, conns>>

(***************************************************************************)
(* load_csv and read_csv on frames of numbers, text and missing values.    *)
(***************************************************************************)
CsvRows ==
    {<<IntCell(1), StrCell("x")>>,
     <<NaN, StrCell("")>>,
     <<IntCell(2), StrCell("NA")>>,
     <<FloatCell(2), StrCell("1")>>,
     <<StrCell("y"), NaN>>}

CsvValues ==
    {DataFrame(ColsAB, RangeIndex(Len(r)), r) : r \in SeqUpTo(CsvRows, MaxRows)}

InitCsv ==
    /\ data \in CsvValues
    /\ fs \in [Paths -> {Absent, OldFile, Dir, Dangling}]
    /\ db = [n \in Tables |-> NoTable]
    /\ conns = 0
    /\ call = NoCall
    /\ result = NoResult

NextCsv ==
    \/ \E p \in Paths, ow \in BOOLEAN, io \in IOOutcomes : load_csv(p, ow, io)
    \/ \E p \in Paths : read_csv(p)

SpecCsv == InitCsv /\ [][NextCsv]_vars

(***************************************************************************)
(* Loader and Transformer together, called with objects of any type.       *)
(***************************************************************************)
OneRow == << <<NaN, StrCell("2020-01-01")>> >>

AnyValues ==
    {Other("int"), Other("dict"), Other("NoneType"),
     DataFrame(ColsAB, RangeIndex(1), OneRow),
     Series("a", RangeIndex(1), << <<NaN>> >>)}

InitFacade ==
    /\ data \in AnyValues
    /\ fs \in [Paths -> {Absent, OldFile}]
    /\ db \in [Tables -> {NoTable, OldTable}]
    /\ conns = 0
    /\ call = NoCall
    /\ result = NoResult

NextFacade ==
    \/ \E p \in Paths, ow \in BOOLEAN : load_csv(p, ow, "ok")
    \/ \E p \in Paths, ow \in BOOLEAN : load_json(p, ow, "ok")
    \/ \E p \in Paths, ow \in BOOLEAN : load_to_excel(p, ow, "ok")
    \/ \E n \in Tables : load_to_db(n, "ok")
    \/ \E ip \in BOOLEAN : drop_na(FALSE, <<>>, "index", ip, "any")
    \/ \E ip \in BOOLEAN : replace(Scalar(NaN), Scalar(IntCell(1)), ip)
    \/ explode(<<"a">>)
    \/ changetype("str")
    \/ to_datetime("b")
    \/ \E ip \in BOOLEAN : rename("None", Dict(<<"a">>, <<"c">>), NoDict, ip, "ignore")

SpecFacade == InitFacade /\ [][NextFacade]_vars

(***************************************************************************)
(* Claims about the Loader and read_db, checked under Spec.                *)
(***************************************************************************)
FileSinks == {"load_csv", "load_json", "load_to_excel"}
Loaders == FileSinks \cup {"load_to_db"}

\* C1 (as stated): load_csv(v, p, overwrite=False) on a Tabular Value v and
\* a path p where an entry exists ends with FileExistsError raised to the
\* caller.
C1_RaisesToCaller ==
    [][(/\ call'.op = "load_csv"
        /\ IsTabular(data)
        /\ ~call'.args.overwrite
        /\ PathExists(call'.args.path))
       => (result'.outcome = "raise" /\ result'.err = "FileExistsError")]_vars

\* C1 (amended): load_csv(v, p, overwrite=False) on a Tabular Value v and a
\* path p that os.path.exists reports (a file or a directory) runs into the
\* guard's FileExistsError, which load_csv catches itself: the message is
\* printed, no success is reported, nothing is written, and the call returns
\* None to the caller.
C1_GuardErrorCaught ==
    [][(/\ call'.op = "load_csv"
        /\ IsTabular(data)
        /\ ~call'.args.overwrite
        /\ PathExists(call'.args.path))
       => (/\ result'.outcome = "return"
           /\ result'.err = "FileExistsError"
           /\ result'.printed = "error"
           /\ result'.ret = "None"
           /\ fs' = fs)]_vars

C1_Witness ==
    /\ call.op = "load_csv"
    /\ call.input.kind = "DataFrame"
    /\ ~call.args.overwrite
    /\ result.err = "FileExistsError"
    /\ fs[call.args.path] = OldFile

\* C2: a file sink called with overwrite=False on a path that exists never
\* writes: the filesystem after the call is the filesystem before it.
C2_NoWriteWhenGuarded ==
    [][(/\ call'.op \in FileSinks
        /\ ~call'.args.overwrite
        /\ PathExists(call'.args.path))
       => fs' = fs]_vars

C2_Witness ==
    /\ call.op = "load_to_excel"
    /\ IsTabular(call.input)
    /\ ~call.args.overwrite
    /\ result.printed = "error"
    /\ fs[call.args.path] = OldFile

\* C3 (as stated): once a call has ended, no connection opened by read_db is
\* still open.
C3_NoConnectionLeftOpen == conns = 0

\* The sink holds what the last Loader call serialises its input to.
WriteCompleted ==
    CASE call.op = "load_csv" -> fs[call.args.path] = to_csv(call.input)
      [] call.op = "load_json" -> fs[call.args.path] = to_json(call.input)
      [] call.op = "load_to_excel" -> fs[call.args.path] = to_excel(call.input)
      [] OTHER -> db[call.args.name] = to_sql(call.input, NoTable)

\* C5: a Loader called with a DataFrame or Series lets no error reach the
\* caller: it returns None, a failure is printed, and the success message is
\* printed only when the write completed.
C5_FailuresCaught ==
    (call.op \in Loaders /\ IsTabular(call.input))
    => (/\ result.outcome = "return"
        /\ result.ret = "None"
        /\ (result.err # "none" => result.printed = "error")
        /\ (result.printed = "success" => WriteCompleted))

C5_Witness ==
    /\ call.op = "load_json"
    /\ IsTabular(call.input)
    /\ call.args.overwrite
    /\ result.err = "OSError"
    /\ result.outcome = "return"
    /\ fs[call.args.path] = Truncated("json")

\* A row without its first (index) cell.
Tail1(r) == [j \in 1..(Len(r) - 1) |-> r[j + 1]]

\* C10: after a successful load_to_db(value, name, url) the table `name`
\* holds value's columns and rows (each behind its index label) and nothing
\* else, whatever it held before, and every other table is as it was.
C10_ReplacesTable ==
    [][(call'.op = "load_to_db" /\ result'.printed = "success")
       => LET n == call'.args.name
          IN  /\ db'[n].exists
              /\ Tail1(db'[n].cols) = data.cols
              /\ Len(db'[n].rows) = Len(data.rows)
              /\ \A i \in 1..Len(data.rows) : Tail1(db'[n].rows[i]) = data.rows[i]
              /\ \A o \in Tables \ {n} : db'[o] = db[o]]_vars

C10_Witness ==
    /\ call.op = "load_to_db"
    /\ result.printed = "success"
    /\ Len(call.input.rows) = MaxRows
    /\ Len(db[call.args.name].rows) = MaxRows
    /\ \E o \in Tables \ {call.args.name} : db[o] = OldTable

(***************************************************************************)
(* Claims about the Transformer.                                           *)
(***************************************************************************)
Transformers ==
    {"drop_na", "replace", "explode", "changetype", "to_datetime", "rename"}

\* What the call made in this step returns when it is made with
\* inplace=False on the same input.
NotInPlaceValue ==
    CASE call'.op = "drop_na" ->
           dropna(data, call'.args.axis, call'.args.how, call'.args.given,
                  call'.args.columns).value
      [] call'.op = "replace" ->
           pd_replace(data,
                      [list |-> call'.args.a_list, items |-> call'.args.item_a],
                      [list |-> call'.args.b_list, items |-> call'.args.item_b]).value
      [] OTHER ->
           pd_rename(data, call'.args.axis,
                     [given |-> call'.args.cols_given, old |-> call'.args.old_cols,
                      new |-> call'.args.new_cols],
                     [given |-> call'.args.index_given, old |-> call'.args.old_index,
                      new |-> call'.args.new_index],
                     call'.args.errors).value

C9_ToDatetimeOutcomes ==
    (call.op = "to_datetime" /\ IsTabular(call.input))
    => LET v == call.input
           col == call.args.column
           j == CHOOSE k \in 1..Len(v.cols) : v.cols[k] = col
           Unparseable == \E i \in 1..Len(v.rows) :
                             v.rows[i][j].t = "str" /\ v.rows[i][j].v \notin DateTexts
       IN  /\ data = v
           /\ IF col \notin Range(v.cols)
              THEN result.outcome = "raise" /\ result.err = "ValueError"
              ELSE IF Unparseable
              THEN result.outcome = "raise" /\ result.err = "ParserError"
              ELSE /\ result.ret = "new"
                   /\ result.value.cols = v.cols
                   /\ Len(result.value.rows) = Len(v.rows)
                   /\ \A i \in 1..Len(v.rows) : \A k \in 1..Len(v.cols) :
                         k # j => result.value.rows[i][k] = v.rows[i][k]

ReadAfterLoad ==
    /\ call.op = "load_csv"
    /\ result.printed = "success"
    /\ call'.op = "read_csv"
    /\ call'.args.path = call.args.path

\* The cell read back is the cell written, or the same integer as a float.
Widened(c, back) == back = c \/ (c.t = "int" /\ back = FloatCell(c.v))

\* C8 (as stated): load_csv(v, p) followed by read_csv(p) returns v's column
\* names in order and v's cells row by row, with no index column, modulo
\* type widening.
C8_RoundTripExact ==
    [][ReadAfterLoad
       => LET v == call.input
              back == result'.value
          IN  /\ result'.ret = "new"
              /\ back.cols = v.cols
              /\ Len(back.rows) = Len(v.rows)
              /\ \A i \in 1..Len(v.rows) : \A j \in 1..Len(v.cols) :
                    Widened(v.rows[i][j], back.rows[i][j])]_vars

\* The cell read back is what the reader infers from the text written:
\* missing for a missing cell and for text that is empty or a missing-value
\* marker; otherwise a number or text with the same spelling, an integer
\* spelling possibly as a floating-point number.
Reread(c, back) ==
    IF c.t = "nan" \/ (c.t = "str" /\ c.v \in NAValues)
    THEN back = NaN
    ELSE /\ back.t \in {"int", "float", "str"}
         /\ \/ FormatCell(back) = FormatCell(c)
            \/ IsIntText(FormatCell(c)) /\ back = FloatCell(IntOfText(FormatCell(c)))

\* C8 (amended): load_csv(v, p) followed by read_csv(p) returns v's column
\* names in order and as many rows as v has, with no index column, and each
\* cell comes back as the reader infers it, column by column, from the text
\* written: missing for a missing cell and for text that is empty or spells
\* a missing-value marker; otherwise a number or text spelling the same
\* value, an integer possibly as a floating-point number.
C8_RoundTripAsInferred ==
    [][ReadAfterLoad
       => LET v == call.input
              back == result'.value
          IN  /\ result'.ret = "new"
              /\ back.cols = v.cols
              /\ Len(back.rows) = Len(v.rows)
              /\ \A i \in 1..Len(v.rows) : \A j \in 1..Len(v.cols) :
                    Reread(v.rows[i][j], back.rows[i][j])]_vars

C8_Witness ==
    /\ call.op = "read_csv"
    /\ result.ret = "new"
    /\ result.value.cols = ColsAB
    /\ Len(result.value.rows) = MaxRows
    /\ fs[call.args.path] = to_csv(data)
    /\ \E i \in 1..MaxRows : data.rows[i][2] = StrCell("NA") /\ result.value.rows[i][2] = NaN

====
